---- MODULE Spec2Model ----
(***************************************************************************)
(* Verification model of SecurePrompt: the hash-chained audit log          *)
(* (secureprompt/audit/log.py, secureprompt/audit/store.py), the scrub     *)
(* pipeline (secureprompt/scrub/pipeline.py, entities/detectors.py), the   *)
(* receipt and vault stores, the two descrub services and the /scrub and   *)
(* /descrub handlers of api/main.py.                                       *)
(*                                                                         *)
(* Values.  Every Python value that is stored in a dict is modelled as a   *)
(* tuple whose first element is a tag, so that values of different kinds   *)
(* can be compared: <<"s", x>> a string, <<"none">> Python None,           *)
(* <<"absent">> a key that is not in the dict, <<"sha256", p, c>> the hex  *)
(* digest of the string p + "\n" + c.  SHA-256 is modelled as a free       *)
(* (collision-free) constructor.                                           *)
(***************************************************************************)
EXTENDS Integers, Sequences, FiniteSets, TLC

VARIABLES
    db,        \* rows of the SQLite table audit, in id order (audit/log.py)
    jsonl,     \* month shard -> lines of audit-YYYYMM.jsonl (audit/log.py)
    file,      \* lines of data/audit.jsonl written by AuditStore
    tampered,  \* which stored record an outside party has altered, if any
    wpc,       \* writer -> position inside audit_log.append
    wev,       \* writer -> the event dict the writer is appending
    started,   \* number of append calls begun by the concurrent writers
    receipts,  \* operation -> data/receipts/{operation_id}.json
    vaults,    \* operation -> data/vault/{operation_id}.json
    nextOp,    \* number of operation ids handed out by uuid4
    result,    \* what the last scrub_text call returned or raised
    out,       \* what the last descrub_text call returned, and its arguments
    resp,      \* the last HTTP response of /scrub or /descrub
    vaultEnv,  \* os.environ["SECUREPROMPT_VAULT_KEY"] of the running process
    keysMade   \* number of keys Fernet.generate_key has made for the vault

auditVars == <<db, jsonl, file>>
writerVars == <<wpc, wev, started>>
keyVars == <<vaultEnv, keysMade>>
scrubVars == <<receipts, vaults, nextOp, result, out, resp, keyVars>>
vars == <<db, jsonl, file, tampered, wpc, wev, started,
          receipts, vaults, nextOp, result, out, resp, vaultEnv, keysMade>>

----------------------------------------------------------------------------
(* Bounds *)

MaxLog == 2       \* appends to audit_log per behaviour
MaxFile == 2      \* appends to the AuditStore file per behaviour
MaxStarted == 3   \* append calls begun by the concurrent writers
MaxLen == 3       \* words in a text handed to scrub_text
MaxOps == 1       \* scrub operations per behaviour
MaxApiLen == 2    \* words in a text posted to /scrub
MaxKeys == 2      \* vault keys generated per behaviour
FreeDigits == 2   \* digits of a digit string that range over 0..9
MaxStored == 2    \* operation ids that have a receipt and a vault file

----------------------------------------------------------------------------
(* Python values *)

Absent == <<"absent">>
None == <<"none">>
EmptyStr == <<"s", "">>
Str(x) == <<"s", x>>

Writers == {"w1", "w2"}
Months == {1, 2}
Ts(m) == <<"ts", m>>

\* every key the modelled dicts use, in the order sort_keys=True emits them
Keys == <<"curr_hash", "endpoint", "event", "hash", "operation_id", "prev_hash",
         "status", "ts">>

EventKinds == {Str("scrub"), Str("descrub")}
Endpoints == {Str("/scrub"), Str("/descrub")}

----------------------------------------------------------------------------
(* secureprompt/audit/log.py *)

\* _month_jsonl: the shard is named by the first seven characters of ts
_month_jsonl(ts) == ts[2]

\* last_hash: hash of the row with the greatest id, None on an empty table
last_hash == IF db = <<>> THEN None ELSE db[Len(db)].hash

\* json.dumps(obj, sort_keys=True, separators=(",", ":")): the pairs of the
\* dict's keys in sorted order
Has(obj, k) == k \in DOMAIN obj /\ obj[k] # Absent
_canon(obj) ==
    LET n == Cardinality({i \in 1..Len(Keys) : Has(obj, Keys[i])})
        \* index in Keys of the j-th present key
        nth[j \in 1..n] ==
            CHOOSE i \in 1..Len(Keys) :
                /\ Has(obj, Keys[i])
                /\ Cardinality({l \in 1..i : Has(obj, Keys[l])}) = j
    IN  [j \in 1..n |-> <<Keys[nth[j]], obj[Keys[nth[j]]]>>]

\* prev or "": None and the empty string are falsy
OrEmpty(prev) == IF prev = None \/ prev = EmptyStr THEN EmptyStr ELSE prev

\* a digest that leaves the event's content out
_chain_hash_prev_only(prev, event_obj) == <<"sha256", OrEmpty(prev), "\n", <<>>>>

\* _chain_hash: sha256((prev or "") + "\n" + _canon(event_obj))
_chain_hash(prev, event_obj) == <<"sha256", OrEmpty(prev), "\n", _canon(event_obj)>>

\* dict.setdefault(key, default): the stored value wins when the key is there
SetDefault(obj, key, default) == IF obj[key] = Absent THEN default ELSE obj[key]

\* the event as append leaves it at line 77: ts, prev_hash and hash filled in
Enriched(event, now, last) ==
    LET ts == SetDefault(event, "ts", now)
        prev == SetDefault(event, "prev_hash", last)
        e2 == [event EXCEPT !["ts"] = ts, !["prev_hash"] = prev]
        h == _chain_hash(prev, e2)
    IN  [e2 EXCEPT !["hash"] = h]

\* the row INSERTed at lines 85-95; json holds the dict that was serialised
Row(e) ==
    [ts |-> e["ts"], event |-> e["event"], operation_id |-> e["operation_id"],
     prev_hash |-> e["prev_hash"], hash |-> e["hash"], json |-> e]

EventKeys == {"event", "hash", "operation_id", "prev_hash", "status", "ts"}

\* a dict a caller builds for append
CallerEvent(kind, prev) ==
    [k \in EventKeys |->
        CASE k = "event" -> kind
          [] k = "operation_id" -> Str("op1")
          [] k = "prev_hash" -> prev
          [] OTHER -> Absent]

\* what callers hand to append: a new dict, a new dict that already has a
\* prev_hash, or a dict that an earlier append returned (append returns its
\* argument, enriched in place)
CallerEvents ==
    {CallerEvent(kind, prev) : kind \in EventKinds, prev \in {Absent, Str("X")}}
    \cup {db[i].json : i \in 1..Len(db)}

\* the clock of _now_iso never runs backwards
Clock == {m \in Months : db = <<>> \/ m >= _month_jsonl(db[Len(db)].ts)}

\* the two writes of append, lines 79-98
Store(e) ==
    /\ jsonl' = [jsonl EXCEPT ![_month_jsonl(e["ts"])] = Append(@, _canon(e))]
    /\ db' = Append(db, Row(e))

\* append, called when no other append is in progress
append(event, now) ==
    /\ Len(db) < MaxLog
    /\ Store(Enriched(event, now, last_hash))
    /\ UNCHANGED <<file, tampered, writerVars, scrubVars>>

AuditAppend == \E event \in CallerEvents, m \in Clock : append(event, Ts(m))

----------------------------------------------------------------------------
(* secureprompt/audit/store.py *)

Zeros64 == Str("0000000000000000000000000000000000000000000000000000000000000000")

\* _tail_prev_hash: curr_hash of the last line, 64 zeros for an empty file
\* or a last line without one
_tail_prev_hash ==
    IF file = <<>> THEN Zeros64
    ELSE IF Has(file[Len(file)], "curr_hash") THEN file[Len(file)]["curr_hash"]
    ELSE Zeros64

StoreKeys == {"curr_hash", "endpoint", "prev_hash", "ts"}

\* base: the record without its hash fields, ts stamped when missing
Base(record, now) ==
    [k \in StoreKeys |->
        CASE k \in {"prev_hash", "curr_hash"} -> Absent
          [] k = "ts" -> IF record["ts"] = Absent THEN now ELSE record["ts"]
          [] OTHER -> record[k]]

\* curr_hash = sha256(prev + stable_json(base))
CurrHash(prev, base) == <<"sha256", prev, _canon(base)>>

Payload(record, now, prev) ==
    LET base == Base(record, now)
    IN  [base EXCEPT !["prev_hash"] = prev, !["curr_hash"] = CurrHash(prev, base)]

StoreRecords ==
    {[k \in StoreKeys |->
        CASE k = "endpoint" -> ep
          [] k = "prev_hash" -> carried
          [] OTHER -> Absent] : ep \in Endpoints, carried \in {Absent, Str("X")}}

\* time.gmtime() never runs backwards
FileClock == {m \in Months : file = <<>> \/ m >= file[Len(file)]["ts"][2]}

\* AuditStore.append: the whole body runs under self._lock
StoreAppend ==
    /\ Len(file) < MaxFile
    /\ \E record \in StoreRecords, m \in FileClock :
        file' = Append(file, Payload(record, Ts(m), _tail_prev_hash))
    /\ UNCHANGED <<db, jsonl, tampered, writerVars, scrubVars>>

\* AuditStore objects opened on the one path; __init__ gives each its own
\* threading.Lock
Stores == {"AUDIT", "second"}

\* with self._lock: no other thread is inside append of the same object
LockFree(w, store) ==
    \A v \in Writers \ {w} : wpc[v] = "store" => wev[v].store # store

\* append, first half: take the object's lock, read the tail hash, build
\* the payload and its curr_hash
SBegin(w) ==
    /\ wpc[w] = "idle"
    /\ started < MaxStarted
    /\ \E store \in Stores, record \in StoreRecords, m \in Months :
        /\ LockFree(w, store)
        /\ wev' = [wev EXCEPT ![w] =
                     [store |-> store,
                      payload |-> Payload(record, Ts(m), _tail_prev_hash)]]
    /\ wpc' = [wpc EXCEPT ![w] = "store"]
    /\ started' = started + 1
    /\ UNCHANGED <<db, jsonl, file, tampered, scrubVars>>

\* append, second half: write the line, leave the lock, return the payload
SWrite(w) ==
    /\ wpc[w] = "store"
    /\ file' = Append(file, wev[w].payload)
    /\ wpc' = [wpc EXCEPT ![w] = "idle"]
    /\ wev' = [wev EXCEPT ![w] = Absent]
    /\ UNCHANGED <<db, jsonl, tampered, started, scrubVars>>

----------------------------------------------------------------------------
(* audit_log.append called by several writers at once.  The function holds  *)
(* no lock: line 75 reads the table, lines 80-81 write the shard and lines  *)
(* 85-96 insert the row, and other writers may run in between.              *)

\* lines 73-77: stamp ts, read last_hash(), compute the hash
WBegin(w) ==
    /\ wpc[w] = "idle"
    /\ started < MaxStarted
    /\ \E kind \in EventKinds, m \in Clock :
        wev' = [wev EXCEPT ![w] = Enriched(CallerEvent(kind, Absent), Ts(m), last_hash)]
    /\ wpc' = [wpc EXCEPT ![w] = "jsonl"]
    /\ started' = started + 1
    /\ UNCHANGED <<db, jsonl, file, tampered, scrubVars>>

\* lines 79-81: append the canonical line to the month shard
WJsonl(w) ==
    /\ wpc[w] = "jsonl"
    /\ jsonl' = [jsonl EXCEPT ![_month_jsonl(wev[w]["ts"])] = Append(@, _canon(wev[w]))]
    /\ wpc' = [wpc EXCEPT ![w] = "db"]
    /\ UNCHANGED <<db, file, tampered, wev, started, scrubVars>>

\* lines 83-100: insert the row, commit, return
WInsert(w) ==
    /\ wpc[w] = "db"
    /\ db' = Append(db, Row(wev[w]))
    /\ wpc' = [wpc EXCEPT ![w] = "idle"]
    /\ wev' = [wev EXCEPT ![w] = Absent]
    /\ UNCHANGED <<jsonl, file, tampered, started, scrubVars>>

----------------------------------------------------------------------------
(* Chain verification, and an outside party that alters one stored record.  *)
(* The repository ships no verifier; Verify* state the check that the       *)
(* stored fields allow: recompute each hash, follow each prev_hash link.    *)

\* the hash that the stored fields of an audit_log record give
Recompute(r) == _chain_hash(r["prev_hash"], [r EXCEPT !["hash"] = Absent])

\* json.loads of a shard line
Loads(line) ==
    [k \in EventKeys |->
        IF \E i \in 1..Len(line) : line[i][1] = k
        THEN line[CHOOSE i \in 1..Len(line) : line[i][1] = k][2]
        ELSE Absent]

VerifyRecord(i) ==
    /\ Recompute(db[i].json) = db[i].json["hash"]
    /\ db[i].json["prev_hash"] = (IF i = 1 THEN None ELSE db[i - 1].json["hash"])

VerifyChain(i) == \A j \in 1..i : VerifyRecord(j)

\* the same for a line of the AuditStore file
RecomputeCurr(r) ==
    CurrHash(r["prev_hash"], [r EXCEPT !["prev_hash"] = Absent, !["curr_hash"] = Absent])

VerifyLine(i) ==
    /\ RecomputeCurr(file[i]) = file[i]["curr_hash"]
    /\ file[i]["prev_hash"] = (IF i = 1 THEN Zeros64 ELSE file[i - 1]["curr_hash"])

VerifyFile(i) == \A j \in 1..i : VerifyLine(j)

OtherKind(k) == IF k = Str("scrub") THEN Str("descrub") ELSE Str("scrub")
OtherEndpoint(k) == IF k = Str("/scrub") THEN Str("/descrub") ELSE Str("/scrub")

\* the ways one audit_log record is altered: a field is changed, with or
\* without the hash being recomputed to match
Alterations(r) ==
    LET flipped == [r EXCEPT !["event"] = OtherKind(@)]
    IN  {flipped,
         [flipped EXCEPT !["hash"] = Recompute(flipped)],
         [r EXCEPT !["prev_hash"] = Str("X")],
         [r EXCEPT !["hash"] = Str("X")],
         [r EXCEPT !["hash"] = Recompute(r)]} \ {r}

LineAlterations(r) ==
    LET flipped == [r EXCEPT !["endpoint"] = OtherEndpoint(@)]
    IN  {flipped,
         [flipped EXCEPT !["curr_hash"] = RecomputeCurr(flipped)],
         [r EXCEPT !["prev_hash"] = Str("X")],
         [r EXCEPT !["curr_hash"] = Str("X")]} \ {r}

\* one row of the table is rewritten; tampered records which one and how
\* many rows the table had then
TamperDb ==
    /\ tampered = Absent
    /\ \E k \in 1..Len(db) : \E r \in Alterations(db[k].json) :
        /\ db' = [db EXCEPT ![k] = Row(r)]
        /\ tampered' = <<"db", k, Len(db)>>
    /\ UNCHANGED <<jsonl, file, writerVars, scrubVars>>

TamperFile ==
    /\ tampered = Absent
    /\ \E k \in 1..Len(file) : \E r \in LineAlterations(file[k]) :
        /\ file' = [file EXCEPT ![k] = r]
        /\ tampered' = <<"file", k, Len(file)>>
    /\ UNCHANGED <<db, jsonl, writerVars, scrubVars>>

----------------------------------------------------------------------------
(* Texts.  A text is " ".join(words): a sequence of words of a fixed        *)
(* vocabulary, separated by single spaces; offsets count words instead of   *)
(* characters.  The vocabulary is chosen so that every regex of             *)
(* entities/detectors.py matches whole words only: on every text over it    *)
(* the passes below return the spans and values of the Python passes.       *)

KW == "IBAN"
IB == "BE710961096109610961096109610961"
EM == "a@b.com"
PH == "0470123456"
Vocabulary == {KW, IB, EM, PH, "Alice", "Order", "pending"}

W(x) == <<"w", x>>
Texts == UNION {[1..n -> {W(x) : x \in Vocabulary}] : n \in 0..MaxLen}

\* a currency code and an amount of one digit: CUR_AMT_RX1 matches "EUR 5",
\* CUR_AMT_RX2 "5 EUR".  Fewer than five amounts in a row are no PHONE.
CU == "EUR"
AM == "5"

\* len() of a word, and of words joined by single spaces
WordLen(x) ==
    CASE x = KW -> 4 [] x = IB -> 32 [] x = EM -> 7 [] x = PH -> 10
      [] x = "Alice" -> 5 [] x = "Order" -> 5 [] x = "pending" -> 7
      [] x = CU -> 3 [] x = AM -> 1
RECURSIVE CharLen(_)
CharLen(ws) ==
    IF ws = <<>> THEN 0
    ELSE WordLen(ws[1][2]) + (IF Len(ws) > 1 THEN 1 ELSE 0) + CharLen(Tail(ws))

Levels == {"C1", "C2", "C3", "C4"}

\* Texts for the detectors alone.  DT is a date that PHONE_RX matches as
\* well; IBV is IB with the check digits that make its ISO 7064 remainder 1.
\* A text with DT has no PH in it: PHONE_RX and PAN_RX run across the space
\* between two words of digits, and over this vocabulary they do not.
DT == "1890-01-01"
IBV == "BE840961096109610961096109610961"
DetectVocabulary == (Vocabulary \ {PH}) \cup {DT, IBV}

\* a string of decimal digits standing alone: a text of one word
DigitWord(ds) == <<"d", ds>>
IsDigitWord(w) == w[1] = "d"
DigitLengths == 12..20
Lead(n) == [i \in 1..n |-> IF i = 1 THEN 4 ELSE 1]
DigitStrings ==
    UNION {{Lead(n - FreeDigits) \o tail : tail \in [1..FreeDigits -> 0..9]} : n \in DigitLengths}

DetectTexts ==
    Texts
    \cup UNION {[1..n -> {W(x) : x \in DetectVocabulary}] : n \in 0..MaxLen}
    \cup {<<DigitWord(ds)>> : ds \in DigitStrings}

----------------------------------------------------------------------------
(* secureprompt/entities/detectors.py *)

\* _entity: the fields of a hit that the pipeline reads
_entity(label, s, e, detector, value, clevel, action, conf) ==
    [label |-> label, start |-> s, end |-> e, rule_id |-> detector,
     value |-> value, c_level |-> clevel, action |-> action, confidence |-> conf]

_overlaps(a, b) == ~(a[2] <= b[1] \/ b[2] <= a[1])

\* _free without the overlap test
_free_always(span, taken) == TRUE

_free(span, taken) == \A i \in 1..Len(taken) : ~_overlaps(span, taken[i])

\* _append_non_overlapping in which a candidate puts out the accepted
\* entities it overlaps
RECURSIVE _append_evicting(_, _)
_append_evicting(acc, ents) ==
    IF ents = <<>> THEN acc
    ELSE LET e == ents[1]
             span == <<e.start, e.end>>
             Clear(x) == ~_overlaps(span, <<x.start, x.end>>)
             ClearSpan(t) == ~_overlaps(span, t)
         IN  _append_evicting(<<Append(SelectSeq(acc[1], Clear), e),
                                Append(SelectSeq(acc[2], ClearSpan), span)>>, Tail(ents))

\* _append_non_overlapping: acc is <<out, taken>>
RECURSIVE _append_non_overlapping(_, _)
_append_non_overlapping(acc, ents) ==
    IF ents = <<>> THEN acc
    ELSE LET e == ents[1]
             span == <<e.start, e.end>>
         IN  IF _free(span, acc[2])
             THEN _append_non_overlapping(<<Append(acc[1], e), Append(acc[2], span)>>, Tail(ents))
             ELSE _append_non_overlapping(acc, Tail(ents))

\* the word positions of text, in order, at which Match holds
Indices(text) == [i \in 1..Len(text) |-> i]

\* IBAN_RX: an IBAN body, with the keyword "IBAN" before it inside the span;
\* the value is group 1, the body alone
_pass_iban(text) ==
    LET Match(i) == text[i] = W(IB) \/ text[i] = W(IBV)
        at == SelectSeq(Indices(text), Match)
        Hit(i) == _entity("IBAN",
                          IF i > 1 /\ text[i - 1] = W(KW) THEN i - 2 ELSE i - 1, i,
                          "IBAN_generic", <<text[i]>>, "C3", "redact", 99)
    IN  [k \in 1..Len(at) |-> Hit(at[k])]

\* EMAIL_RX
_pass_email(text) ==
    LET Match(i) == text[i] = W(EM)
        at == SelectSeq(Indices(text), Match)
    IN  [k \in 1..Len(at) |->
            _entity("EMAIL", at[k] - 1, at[k], "EMAIL_simple", <<text[at[k]]>>, "C4", "mask", 98)]

\* STATUS_RX
_pass_status(text) ==
    LET Match(i) == text[i] = W("pending")
        at == SelectSeq(Indices(text), Match)
    IN  [k \in 1..Len(at) |->
            _entity("STATUS", at[k] - 1, at[k], "STATUS_words", <<text[at[k]]>>, "C2", "mask", 90)]

\* PHONE_RX: 8 to 20 characters, digits first and last; the lookbehind
\* (?<!IBAN\ ) rejects a number right after "IBAN "
_pass_phone(text) ==
    LET Match(i) ==
            /\ \/ text[i] = W(PH)
               \/ text[i] = W(DT)
               \/ IsDigitWord(text[i]) /\ Len(text[i][2]) \in 8..20
            /\ ~(i > 1 /\ text[i - 1] = W(KW))
        at == SelectSeq(Indices(text), Match)
    IN  [k \in 1..Len(at) |->
            _entity("PHONE", at[k] - 1, at[k], "PHONE_e164ish", <<text[at[k]]>>, "C4", "mask", 97)]

\* NAME_RX: a maximal run of two or more capitalised words; a run that
\* starts with one of the excluded prefixes is skipped whole
Cap(w) == w \in {W("Alice"), W("Order")}
RunEnd(text, i) ==
    CHOOSE j \in i..Len(text) :
        /\ \A l \in i..j : Cap(text[l])
        /\ (j = Len(text) \/ ~Cap(text[j + 1]))
_pass_name(text) ==
    LET Match(i) ==
            /\ Cap(text[i])
            /\ (i = 1 \/ ~Cap(text[i - 1]))
            /\ RunEnd(text, i) > i
            /\ text[i] # W("Order")
        at == SelectSeq(Indices(text), Match)
    IN  [k \in 1..Len(at) |->
            _entity("NAME", at[k] - 1, RunEnd(text, at[k]), "NAME_capitalized_bigram",
                    SubSeq(text, at[k], RunEnd(text, at[k])), "C2", "mask", 93)]

\* DATE_RX
_pass_date(text) ==
    LET Match(i) == text[i] = W(DT)
        at == SelectSeq(Indices(text), Match)
    IN  [k \in 1..Len(at) |->
            _entity("DATE", at[k] - 1, at[k], "DATE_generic", <<text[at[k]]>>, "C3", "mask", 94)]

\* the sum _luhn_ok takes over digits[:-1], from index idx (0-based) on
RECURSIVE LuhnSum(_, _, _)
LuhnSum(digits, idx, parity) ==
    IF idx >= Len(digits) - 1 THEN 0
    ELSE LET value == digits[idx + 1]
             doubled == IF 2 * value > 9 THEN 2 * value - 9 ELSE 2 * value
         IN  (IF idx % 2 = parity THEN doubled ELSE value) + LuhnSum(digits, idx + 1, parity)

_luhn_ok(digits) ==
    /\ Len(digits) >= 13
    /\ (LuhnSum(digits, 0, (Len(digits) - 2) % 2) + digits[Len(digits)]) % 10 = 0

\* PAN_RX, \b(?:\d[ -]?){13,19}\d\b: 14 to 20 digits; then the tests of
\* _pass_pan on the digits, and _free against the spans taken so far.  Over
\* the vocabulary PAN_RX matches only pairs of words of digits, which fail
\* one of the tests.
_pass_pan(text, taken) ==
    LET Match(i) ==
            /\ IsDigitWord(text[i])
            /\ Len(text[i][2]) \in 14..20
            /\ ~(Len(text[i][2]) < 13 \/ Len(text[i][2]) > 19)
            /\ _luhn_ok(text[i][2])
            /\ _free(<<i - 1, i>>, taken)
        at == SelectSeq(Indices(text), Match)
    IN  [k \in 1..Len(at) |->
            _entity("PAN", at[k] - 1, at[k], "PAN_luhn", <<text[at[k]]>>, "C4", "redact", 98)]

\* _emit_amount_currency: the currency and the amount of one match, each if
\* its span is free
_emit_amount_currency(text, amt, cur, taken) ==
    (IF _free(<<cur - 1, cur>>, taken)
     THEN <<_entity("CURRENCY", cur - 1, cur, "CUR_code_or_symbol", <<text[cur]>>, "C3", "mask", 96)>>
     ELSE <<>>)
    \o (IF _free(<<amt - 1, amt>>, taken)
        THEN <<_entity("AMOUNT", amt - 1, amt, "AMOUNT_near_currency", <<text[amt]>>, "C3", "mask", 96)>>
        ELSE <<>>)

RECURSIVE Flatten(_)
Flatten(ss) == IF ss = <<>> THEN <<>> ELSE ss[1] \o Flatten(Tail(ss))

\* _pass_amount_currency: the matches of CUR_AMT_RX1 (currency, amount), then
\* those of CUR_AMT_RX2 (amount, currency)
_pass_amount_currency(text, taken) ==
    LET Follows(i, a, b) == i < Len(text) /\ text[i] = W(a) /\ text[i + 1] = W(b)
        Rx1(i) == Follows(i, CU, AM)
        Rx2(i) == Follows(i, AM, CU)
        at1 == SelectSeq(Indices(text), Rx1)
        at2 == SelectSeq(Indices(text), Rx2)
    IN  Flatten([k \in 1..Len(at1) |-> _emit_amount_currency(text, at1[k] + 1, at1[k], taken)])
        \o Flatten([k \in 1..Len(at2) |-> _emit_amount_currency(text, at2[k], at2[k] + 1, taken)])

\* BIC_RX, DOB_CTX_RX, YEAR_RX and XFER_RX match no text of Texts,
\* RepeatTexts or DetectTexts
_pass_bic(text) == <<>>
_pass_dob(text) == <<>>
_pass_year(text) == <<>>
_pass_transfer_id(text) == <<>>

\* the order of labels as Python compares the strings
LabelRank(l) ==
    CASE l = "AMOUNT" -> 1 [] l = "CURRENCY" -> 2 [] l = "DATE" -> 3 [] l = "EMAIL" -> 4
      [] l = "IBAN" -> 5 [] l = "NAME" -> 6 [] l = "PAN" -> 7 [] l = "PHONE" -> 8
      [] l = "STATUS" -> 9

\* key=lambda d: (d["start"], d["end"], d["label"])
SpanLess(a, b) ==
    \/ a.start < b.start
    \/ a.start = b.start /\ a.end < b.end
    \/ a.start = b.start /\ a.end = b.end /\ LabelRank(a.label) < LabelRank(b.label)

\* detect: the passes in their fixed order, then the sort
detect(text) ==
    IF text = <<>> THEN <<>>
    ELSE LET a1 == _append_non_overlapping(<<<<>>, <<>>>>, _pass_iban(text))
             a2 == _append_non_overlapping(a1, _pass_bic(text))
             a3 == _append_non_overlapping(a2, _pass_email(text))
             a4 == _append_non_overlapping(a3, _pass_dob(text))
             a5 == _append_non_overlapping(a4, _pass_date(text))
             a6 == _append_non_overlapping(a5, _pass_year(text))
             a7 == _append_non_overlapping(a6, _pass_amount_currency(text, a6[2]))
             a8 == _append_non_overlapping(a7, _pass_pan(text, a7[2]))
             a9 == _append_non_overlapping(a8, _pass_status(text))
             a10 == _append_non_overlapping(a9, _pass_transfer_id(text))
             a11 == _append_non_overlapping(a10, _pass_phone(text))
             a12 == _append_non_overlapping(a11, _pass_name(text))
         IN  SortSeq(a12[1], SpanLess)

\* a caller of detect alone
Detect ==
    /\ \E text \in DetectTexts :
        result' = [status |-> "detected", text |-> text, hits |-> detect(text)]
    /\ UNCHANGED <<auditVars, tampered, writerVars, receipts, vaults, nextOp, out, resp,
                   keyVars>>

----------------------------------------------------------------------------
(* secureprompt/entities/confidence.py *)

\* BASE_RULE_CONF.get(label, 0.90), in hundredths
BASE_RULE_CONF(label) ==
    CASE label = "EMAIL" -> 98 [] label = "IBAN" -> 99 [] label = "PAN" -> 99
      [] label = "PHONE" -> 98 [] label = "NAME" -> 90 [] label = "ADDRESS" -> 90
      [] OTHER -> 90

add_confidence(rule_hits) ==
    [i \in 1..Len(rule_hits) |->
        [label |-> rule_hits[i].label, start |-> rule_hits[i].start,
         end |-> rule_hits[i].end, rule_id |-> rule_hits[i].rule_id,
         value |-> rule_hits[i].value, c_level |-> rule_hits[i].c_level,
         action |-> rule_hits[i].action,
         confidence |-> BASE_RULE_CONF(rule_hits[i].label),
         confidence_sources |-> <<"rule", BASE_RULE_CONF(rule_hits[i].label)>>,
         explanation |-> <<"rule", rule_hits[i].label, "base", BASE_RULE_CONF(rule_hits[i].label)>>]]

----------------------------------------------------------------------------
(* Fernet (cryptography.fernet), as used by receipts/store.py and           *)
(* audit/vault.py: a token names the key that made it and decrypts under    *)
(* that key only.                                                           *)

ReceiptKey == "SP_FERNET_KEY"

\* the vault key a deployment configures in SECUREPROMPT_VAULT_KEY
ConfiguredKey == <<"key", 0>>

\* audit/vault.py _load_key: the key of the environment if there is one,
\* else a key made now by Fernet.generate_key, different from every other
VaultKey == IF vaultEnv # Absent THEN vaultEnv ELSE <<"key", keysMade + 1>>

\* Vault(): _load_key leaves a key it made in os.environ, nowhere else
Vault(constructed) ==
    IF constructed /\ vaultEnv = Absent
    THEN vaultEnv' = VaultKey /\ keysMade' = keysMade + 1
    ELSE UNCHANGED keyVars

FernetEncrypt(key, value) == <<"fernet", key, value>>
FernetDecrypts(key, token) == token[1] = "fernet" /\ token[2] = key
FernetDecrypt(key, token) == token[3]

\* receipts/store.py encrypt_text / decrypt_text, under get_cipher()
encrypt_text(value) == FernetEncrypt(ReceiptKey, value)
decrypt_text(token) == FernetDecrypt(ReceiptKey, token)

----------------------------------------------------------------------------
(* secureprompt/scrub/pipeline.py *)

Salt == "change-me"

CLEARANCE_ORDER(level) ==
    CASE level = "C1" -> 1 [] level = "C2" -> 2 [] level = "C3" -> 3 [] level = "C4" -> 4

\* ENTITY_DEFAULT_C_LEVEL.get(label, c_level)
ENTITY_DEFAULT_C_LEVEL(label, c_level) ==
    CASE label \in {"EMAIL", "NAME", "ADDRESS", "IBAN"} -> "C3"
      [] label \in {"PHONE", "PAN", "CCV", "EXPIRY_DATE", "PIN", "PASSWORD", "NATIONAL_ID"} -> "C4"
      [] OTHER -> c_level

\* the words of a value, without the text-element tag
Words(value) == [i \in 1..Len(value) |-> value[i][2]]

\* _identifier: "{c_level}::{label}::{sha256(salt + value)[:10]}"; the digest
\* is kept as its preimage
\* _identifier with the operation's number hashed in
_identifier_op(label, value, c_level) == <<"id", c_level, label, <<Salt, nextOp>>>> \o Words(value)

_identifier(label, value, c_level) == <<"id", c_level, label, Salt>> \o Words(value)

\* _mask_value without the floor of three
_mask_value_len(value) == <<"stars", CharLen(value)>>

\* _mask_value: "*" * max(len(value), 3)
_mask_value(value) == <<"stars", IF CharLen(value) > 3 THEN CharLen(value) ELSE 3>>

\* what the loop of lines 61-101 derives from one hit
HitLevel(hit, c_level) == ENTITY_DEFAULT_C_LEVEL(hit.label, c_level)
\* the identifier formatted with the requested tier
HitIdentifier_requested(hit, c_level) == _identifier(hit.label, hit.value, c_level)

HitIdentifier(hit, c_level) == _identifier(hit.label, hit.value, HitLevel(hit, c_level))
\* hit.get("action") or default_action: an empty action counts as none
HitAction(hit, c_level) ==
    IF hit.action # "" THEN hit.action
    ELSE IF HitLevel(hit, c_level) \in {"C1", "C2"} THEN "allow" ELSE "mask"

PublicEntity(hit, c_level) ==
    [label |-> hit.label, span |-> <<hit.start, hit.end>>, detector |-> hit.rule_id,
     confidence |-> hit.confidence, confidence_sources |-> hit.confidence_sources,
     c_level |-> HitLevel(hit, c_level), identifier |-> HitIdentifier(hit, c_level),
     action |-> HitAction(hit, c_level), explanation |-> hit.explanation,
     mask_preview |-> IF HitAction(hit, c_level) = "mask" THEN _mask_value(hit.value) ELSE Absent]

ReceiptEntity(hit, c_level) ==
    [identifier |-> HitIdentifier(hit, c_level), label |-> hit.label, detector |-> hit.rule_id,
     c_level |-> HitLevel(hit, c_level), confidence |-> hit.confidence,
     confidence_sources |-> hit.confidence_sources, span |-> <<hit.start, hit.end>>,
     original |-> hit.value, action |-> HitAction(hit, c_level),
     explanation |-> hit.explanation]

\* sorted(hits, key=start), left to right
StartLess(a, b) == a.start < b.start

\* sorted(hits, key=start, reverse=True)
StartGreater(a, b) == a.start > b.start

\* line 71, for the hits from right to left
RECURSIVE Splice(_, _, _)
Splice(text_out, hits_desc, c_level) ==
    IF hits_desc = <<>> THEN text_out
    ELSE LET hit == hits_desc[1]
         IN  Splice(SubSeq(text_out, 1, hit.start)
                        \o <<HitIdentifier(hit, c_level)>>
                        \o SubSeq(text_out, hit.end + 1, Len(text_out)),
                    Tail(hits_desc), c_level)

\* the order of two hex digests: fixed, but not computed by the model; a
\* numbering of the values stands for it
WordRank(x) ==
    CASE x = KW -> 1 [] x = IB -> 2 [] x = EM -> 3 [] x = PH -> 4
      [] x = "Alice" -> 5 [] x = "Order" -> 6 [] x = "pending" -> 7
      [] x = CU -> 8 [] x = AM -> 9
RECURSIVE DigestRank(_)
DigestRank(ws) == IF ws = <<>> THEN 0 ELSE WordRank(ws[1]) + 16 * DigestRank(Tail(ws))

\* _sort_key: (-tier, -confidence, label, identifier)
_sort_key_less(a, b) ==
    LET ra == CLEARANCE_ORDER(a.c_level)
        rb == CLEARANCE_ORDER(b.c_level)
        da == DigestRank(SubSeq(a.identifier, 5, Len(a.identifier)))
        dd == DigestRank(SubSeq(b.identifier, 5, Len(b.identifier)))
    IN  \/ ra > rb
        \/ ra = rb /\ a.confidence > b.confidence
        \/ ra = rb /\ a.confidence = b.confidence /\ LabelRank(a.label) < LabelRank(b.label)
        \/ ra = rb /\ a.confidence = b.confidence /\ a.label = b.label /\ da < dd

Reverse(s) == [i \in 1..Len(s) |-> s[Len(s) + 1 - i]]

\* the loop of lines 61-101 over hits_desc, the hits from right to left, and
\* lines 103-126
ScrubLoop(text, c_level, hits_desc) ==
    [scrubbed |-> Splice(text, hits_desc, c_level),
         entities |-> SortSeq(Reverse([i \in 1..Len(hits_desc) |->
                                          PublicEntity(hits_desc[i], c_level)]),
                              _sort_key_less),
         receipt_entities |-> Reverse([i \in 1..Len(hits_desc) |->
                                          ReceiptEntity(hits_desc[i], c_level)]),
         \* lines 122-126: one item per entity, in the loop's order
         vault_items |-> [i \in 1..Len(hits_desc) |->
                            [identifier |-> HitIdentifier(hits_desc[i], c_level),
                             label |-> hits_desc[i].label,
                             value |-> hits_desc[i].value]],
         placeholder_map |-> {HitIdentifier(hits_desc[i], c_level) : i \in 1..Len(hits_desc)}]

\* everything scrub_text computes before it touches the disk
Scrubbed(text, c_level) ==
    ScrubLoop(text, c_level, SortSeq(add_confidence(detect(text)), StartGreater))

\* hashlib.sha256(text).hexdigest()
Sha256(text) == <<"sha256", text>>

----------------------------------------------------------------------------
(* secureprompt/receipts/store.py and secureprompt/audit/vault.py *)

Ops == 1..MaxStored

\* the operation ids a descrub request names: handed out already, or not
Requested == 1..MaxOps
NoFile == [status |-> "absent"]

\* write_receipt: the JSON document written to data/receipts/{operation_id}.json
Receipt(operation_id, text, scrubbed, entities, c_level, placeholder_map) ==
    [status |-> "stored",
     operation_id |-> operation_id,
     hashes |-> [original |-> Sha256(text), scrubbed |-> Sha256(scrubbed)],
     c_level |-> c_level,
     policy_version |-> "unknown",
     placeholder_map |-> placeholder_map,
     scrubbed |-> [text |-> scrubbed],
     entities |-> [i \in 1..Len(entities) |->
                    [identifier |-> entities[i].identifier, label |-> entities[i].label,
                     detector |-> entities[i].detector, c_level |-> entities[i].c_level,
                     confidence |-> entities[i].confidence, span |-> entities[i].span,
                     confidence_sources |-> entities[i].confidence_sources,
                     explanation |-> entities[i].explanation,
                     original_enc |-> encrypt_text(entities[i].original)]],
     original |-> Absent]

\* Vault.put_many: the records written to data/vault/{operation_id}.json
VaultFile(items) ==
    [status |-> "stored",
     records |-> [i \in 1..Len(items) |->
                    [identifier |-> items[i].identifier, label |-> items[i].label,
                     ciphertext |-> FernetEncrypt(VaultKey, items[i].value)]]]

\* where a scrub_text call can fail: Vault() at line 120, put_many at line
\* 129 (caught by the except of lines 130-131), write_receipt at line 134
ScrubFailures == {"none", "vault_init", "put_many", "write_receipt"}

\* scrub_text(text, c_level), lines 51-152: the operation id drawn, the files
\* as the call leaves them, and what the call returns or raises
Outcome(text, c_level, fail, s, op) ==
        [nextOp |-> op,
         vaults |-> IF fail \in {"vault_init", "put_many"} \/ s.vault_items = <<>>
                    THEN vaults
                    ELSE [vaults EXCEPT ![op] = VaultFile(s.vault_items)],
         receipts |-> IF fail \in {"vault_init", "write_receipt"}
                      THEN receipts
                      ELSE [receipts EXCEPT ![op] =
                                Receipt(op, text, s.scrubbed, s.receipt_entities,
                                        c_level, s.placeholder_map)],
         result |-> IF fail \in {"vault_init", "write_receipt"}
                    THEN [status |-> "raised", text |-> text, c_level |-> c_level,
                          operation_id |-> op]
                    ELSE [status |-> "ok", text |-> text, c_level |-> c_level,
                          original_hash |-> Sha256(text),
                          scrubbed |-> s.scrubbed, scrubbed_ids |-> s.scrubbed,
                          entities |-> s.entities, operation_id |-> op]]

ScrubOutcome(text, c_level, fail) ==
    Outcome(text, c_level, fail, Scrubbed(text, c_level), nextOp + 1)

\* the call, as an effect on the files
Effect(o) ==
    /\ nextOp' = o.nextOp
    /\ vaults' = o.vaults
    /\ receipts' = o.receipts
    /\ result' = o.result

scrub_text(text, c_level, fail) == Effect(ScrubOutcome(text, c_level, fail))

ScrubText ==
    /\ nextOp < MaxOps
    /\ \E text \in Texts, c_level \in Levels, fail \in ScrubFailures :
        /\ scrub_text(text, c_level, fail)
        /\ Vault(fail # "vault_init")
    /\ UNCHANGED <<auditVars, tampered, writerVars, out, resp>>

\* scrub_text called once and again: texts that hold the same value at
\* different places, and a status word, whose tier is the requested one
RepeatVocabulary == {W(EM), W("pending"), W("Alice"), W(CU), W(AM), W(IB)}

RepeatTexts == UNION {[1..n -> RepeatVocabulary] : n \in 0..MaxApiLen}

ScrubAgain ==
    /\ nextOp < MaxStored
    /\ \E text \in RepeatTexts, c_level \in Levels, fail \in ScrubFailures :
        /\ scrub_text(text, c_level, fail)
        /\ Vault(fail # "vault_init")
    /\ UNCHANGED <<auditVars, tampered, writerVars, out, resp>>

----------------------------------------------------------------------------
(* secureprompt/receipts/descrub.py *)

\* _rank: a missing or unknown level ranks highest
_rank(level) ==
    CASE level = "C1" -> 1 [] level = "C2" -> 2 [] level = "C3" -> 3 [] OTHER -> 4

\* str.replace(token, original, 1): the first occurrence, if there is one
ReplaceFirst(s, token, original) ==
    IF \E i \in 1..Len(s) : s[i] = token
    THEN LET i == CHOOSE i \in 1..Len(s) : s[i] = token /\ \A j \in 1..(i - 1) : s[j] # token
         IN  SubSeq(s, 1, i - 1) \o original \o SubSeq(s, i + 1, Len(s))
    ELSE s

\* lines 36-39 without the test of the allow-list
Skipped_clearance_only(entity, ids, clearance) == _rank(entity.c_level) > _rank(clearance)

\* lines 36-39 without the clearance test
Skipped_ids_only(entity, ids, clearance) == ids # {} /\ entity.identifier \notin ids

\* lines 36-39: the entity is passed over
Skipped(entity, ids, clearance) ==
    \/ ids # {} /\ entity.identifier \notin ids
    \/ _rank(entity.c_level) > _rank(clearance)

\* the loop of lines 32-46
RECURSIVE DescrubLoop(_, _, _, _)
DescrubLoop(text_out, entities, clearance, ids) ==
    IF entities = <<>> THEN text_out
    ELSE LET entity == entities[1]
             next ==
                IF Skipped(entity, ids, clearance) \/ ~FernetDecrypts(ReceiptKey, entity.original_enc)
                THEN text_out
                ELSE ReplaceFirst(text_out, entity.identifier, decrypt_text(entity.original_enc))
         IN  DescrubLoop(next, Tail(entities), clearance, ids)

\* descrub_text(scrubbed_text, receipt, clearance, ids); ids = {} is "if not ids"
descrub_text(scrubbed_text, receipt, clearance, ids) ==
    DescrubLoop(scrubbed_text, receipt.entities, clearance, ids)

ReceiptIds(receipt) == {receipt.entities[i].identifier : i \in 1..Len(receipt.entities)}

\* the identifiers a caller can know of an operation
ReceiptIdsOrNone(op) == IF receipts[op].status = "stored" THEN ReceiptIds(receipts[op]) ELSE {}

\* read_receipt(operation_id), then descrub_text on the stored scrubbed text,
\* as tests/test_receipts_roundtrip.py does
DescrubText ==
    /\ \E op \in 1..nextOp, clearance \in Levels :
        /\ receipts[op].status = "stored"
        /\ \E ids \in SUBSET ReceiptIds(receipts[op]) :
            out' = [status |-> "ok", operation_id |-> op, clearance |-> clearance, ids |-> ids,
                    text |-> descrub_text(receipts[op].scrubbed.text, receipts[op], clearance, ids)]
    /\ UNCHANGED <<auditVars, tampered, writerVars, receipts, vaults, nextOp, result, resp,
                   keyVars>>

----------------------------------------------------------------------------
(* secureprompt/descrub/service.py and Vault.get_map *)

\* get_map that gives up on the first record that does not decrypt
get_map_abort(op, ids) ==
    IF vaults[op].status # "stored" THEN <<>>
    ELSE LET rows == vaults[op].records
             Asked(row) == row.identifier \in ids
         IN  IF \E i \in 1..Len(rows) :
                    Asked(rows[i]) /\ ~FernetDecrypts(VaultKey, rows[i].ciphertext)
             THEN <<>>
             ELSE SelectSeq(rows, Asked)

\* Vault.get_map: the plaintext of the wanted records that decrypt; no file,
\* no entries
get_map(op, ids) ==
    IF vaults[op].status # "stored" THEN <<>>
    ELSE LET Wanted(row) == row.identifier \in ids /\ FernetDecrypts(VaultKey, row.ciphertext)
         IN  SelectSeq(vaults[op].records, Wanted)

MapKeys(mapping) == {mapping[i].identifier : i \in 1..Len(mapping)}

\* the dict's value for a key: the last row with that identifier wins
MapValue(mapping, ident) ==
    LET i == CHOOSE i \in 1..Len(mapping) :
                /\ mapping[i].identifier = ident
                /\ \A j \in (i + 1)..Len(mapping) : mapping[j].identifier # ident
    IN  FernetDecrypt(VaultKey, mapping[i].ciphertext)

\* _replace_identifiers: every occurrence of every mapped identifier
RECURSIVE _replace_identifiers(_, _)
_replace_identifiers(text, mapping) ==
    IF text = <<>> THEN <<>>
    ELSE (IF text[1] \in MapKeys(mapping) THEN MapValue(mapping, text[1]) ELSE <<text[1]>>)
            \o _replace_identifiers(Tail(text), mapping)

\* descrub(operation_id, identifiers); an empty list asks for every
\* identifier of the receipt
Restored(base, mapping) ==
    [text |-> _replace_identifiers(base, mapping), restored |-> MapKeys(mapping)]

descrub(op, identifiers) ==
    Restored(receipts[op].scrubbed.text,
             get_map(op, IF identifiers # {} THEN identifiers ELSE ReceiptIds(receipts[op])))

\* a caller of descrub(operation_id, identifiers) outside the HTTP handlers:
\* Vault() comes first, then _load_receipt, which raises FileNotFoundError
VaultDescrub ==
    /\ \E op \in Requested :
        \E identifiers \in SUBSET ReceiptIdsOrNone(op) :
            out' = IF receipts[op].status # "stored"
                   THEN [status |-> "raised", operation_id |-> op]
                   ELSE [status |-> "restored", operation_id |-> op, ids |-> identifiers,
                         text |-> descrub(op, identifiers).text,
                         restored |-> descrub(op, identifiers).restored]
    /\ Vault(TRUE)
    /\ UNCHANGED <<auditVars, tampered, writerVars, receipts, vaults, nextOp, result, resp>>

\* a token that no key authenticates: Fernet.decrypt raises InvalidToken
Garbled(token) == <<"garbled", token[2], token[3]>>

\* one record of a vault file is damaged on disk
CorruptVault ==
    /\ \E op \in Ops :
        /\ vaults[op].status = "stored"
        /\ \E k \in 1..Len(vaults[op].records) :
            /\ vaults[op].records[k].ciphertext # Garbled(vaults[op].records[k].ciphertext)
            /\ vaults' = [vaults EXCEPT ![op].records[k].ciphertext = Garbled(@)]
    /\ UNCHANGED <<auditVars, tampered, writerVars, receipts, nextOp, result, out, resp, keyVars>>

\* the token of one entity of a receipt is damaged on disk: decrypt_text
\* raises in descrub_text
CorruptReceipt ==
    /\ \E op \in Ops :
        /\ receipts[op].status = "stored"
        /\ \E k \in 1..Len(receipts[op].entities) :
            /\ receipts[op].entities[k].original_enc
                    # Garbled(receipts[op].entities[k].original_enc)
            /\ receipts' = [receipts EXCEPT ![op].entities[k].original_enc = Garbled(@)]
    /\ UNCHANGED <<auditVars, tampered, writerVars, vaults, nextOp, result, out, resp, keyVars>>

\* the process ends and a new one starts, in a deployment that configures no
\* SECUREPROMPT_VAULT_KEY: os.environ of the old process is gone, the files
\* under data/ stay
Restart ==
    /\ keysMade < MaxKeys
    /\ vaultEnv' = Absent
    /\ UNCHANGED <<auditVars, tampered, writerVars, receipts, vaults, nextOp, result, out,
                   resp, keysMade>>

----------------------------------------------------------------------------
(* api/main.py: POST /scrub (lines 680-747) and POST /descrub (750-830) *)

\* request texts: an e-mail address (C3), a phone number (C4) and a word no
\* detector matches
ApiVocabulary == {W(EM), W(PH), W("Alice")}

ApiTexts == {t \in Texts : Len(t) <= MaxApiLen /\ \A i \in 1..Len(t) : t[i] \in ApiVocabulary}

\* one fault per request: in scrub_text, in AUDIT.append, or in
\* audit_log.append before the shard line or before the row is written
ApiFailures == ScrubFailures \cup {"store", "emit_jsonl", "emit_db"}

Roles == {"admin", "guest"}
AllowedRoles == {"admin", "reviewer"}

\* the handlers read the clock once per request; the requests of one
\* behaviour fall in one month
ApiNow == Ts(1)

ApiEvent(kind, op, status) ==
    [CallerEvent(kind, Absent) EXCEPT !["operation_id"] = <<"op", op>>, !["status"] = status]

\* _emit_audit_event: audit_log.append inside try / except Exception: pass
Emit(e, fail) ==
    /\ jsonl' = IF fail = "emit_jsonl" THEN jsonl
                ELSE [jsonl EXCEPT ![_month_jsonl(e["ts"])] = Append(@, _canon(e))]
    /\ db' = IF fail \in {"emit_jsonl", "emit_db"} THEN db ELSE Append(db, Row(e))

_emit_audit_event(event, now, fail) == Emit(Enriched(event, now, last_hash), fail)

AuditFailed(fail) == fail \in {"emit_jsonl", "emit_db"}

\* _maybe_store_original: with KEEP_ORIGINAL_IN_RECEIPTS set, the request
\* text is written into the stored receipt
_maybe_store_original(rs, op, text, keep) ==
    IF keep /\ rs[op].status = "stored" /\ text # <<>>
    THEN [rs EXCEPT ![op]["original"] = text]
    ELSE rs

\* AUDIT.append of the handler's record
StoreRecord(endpoint, now) ==
    file' = Append(file,
                Payload([k \in StoreKeys |-> IF k = "endpoint" THEN Str(endpoint) ELSE Absent],
                        now, _tail_prev_hash))

\* lines 684-747, after scrub_text has left the outcome o
AfterScrub(o, text, fail, keep, now) ==
    /\ nextOp' = o.nextOp
    /\ vaults' = o.vaults
    /\ result' = o.result
    /\ IF o.result.status = "raised"
       THEN /\ receipts' = o.receipts
            /\ resp' = [status |-> "500", endpoint |-> "/scrub", operation_id |-> o.nextOp,
                        audit |-> "none"]
            /\ UNCHANGED <<db, jsonl, file>>
       ELSE /\ receipts' = _maybe_store_original(o.receipts, o.nextOp, text, keep)
            /\ IF fail = "store"
               THEN /\ resp' = [status |-> "500", endpoint |-> "/scrub",
                                operation_id |-> o.nextOp, audit |-> "none"]
                    /\ UNCHANGED <<db, jsonl, file>>
               ELSE /\ StoreRecord("/scrub", now)
                    /\ _emit_audit_event(ApiEvent(Str("scrub"), o.nextOp, Absent), now, fail)
                    /\ resp' = [status |-> "200", endpoint |-> "/scrub",
                                operation_id |-> o.nextOp,
                                audit |-> IF AuditFailed(fail) THEN "failed" ELSE "ok"]

api_scrub(text, c_level, fail, keep, now) ==
    AfterScrub(ScrubOutcome(text, c_level, IF fail \in ScrubFailures THEN fail ELSE "none"),
               text, fail, keep, now)

\* the logs are followed up to their bounds
ApiRoom ==
    /\ Len(db) < MaxLog
    /\ Len(file) < MaxFile
    /\ \A m \in Months : Len(jsonl[m]) < MaxLog

ApiScrub ==
    /\ nextOp < MaxOps
    /\ ApiRoom
    /\ \E text \in ApiTexts, c_level \in Levels, fail \in ApiFailures,
          keep \in BOOLEAN :
        /\ api_scrub(text, c_level, fail, keep, ApiNow)
        /\ Vault(fail # "vault_init")
    /\ UNCHANGED <<tampered, writerVars, out>>

\* lines 826-830, with the clearance the requester sent
Approved(op, clearance, fail, d) ==
    [status |-> "200", endpoint |-> "/descrub", operation_id |-> op,
     audit |-> IF AuditFailed(fail) THEN "failed" ELSE "ok",
     clearance |-> clearance, restored |-> d.restored, descrubbed |-> d.text]

\* the request may carry a clearance (DescrubRequest allows extra fields);
\* the handler does not read it
api_descrub(op, identifiers, role, clearance, fail, now) ==
    IF role \notin AllowedRoles
    THEN /\ _emit_audit_event(ApiEvent(Str("descrub"), op, Str("denied")), now, fail)
         /\ resp' = [status |-> "422", endpoint |-> "/descrub", operation_id |-> op,
                     audit |-> IF AuditFailed(fail) THEN "failed" ELSE "ok"]
         /\ UNCHANGED file
    ELSE IF receipts[op].status # "stored"
    THEN /\ resp' = [status |-> "404", endpoint |-> "/descrub", operation_id |-> op,
                     audit |-> "none"]
         /\ UNCHANGED <<db, jsonl, file>>
    ELSE IF fail = "store"
    THEN /\ resp' = [status |-> "500", endpoint |-> "/descrub", operation_id |-> op,
                     audit |-> "none"]
         /\ UNCHANGED <<db, jsonl, file>>
    ELSE /\ StoreRecord("/descrub", now)
         /\ _emit_audit_event(ApiEvent(Str("descrub"), op, Str("approved")), now, fail)
         /\ resp' = Approved(op, clearance, fail, descrub(op, identifiers))

ApiDescrub ==
    /\ ApiRoom
    /\ \E op \in Requested, role \in Roles, clearance \in Levels,
          fail \in {"none", "store", "emit_jsonl", "emit_db"} :
        \E identifiers \in SUBSET ReceiptIdsOrNone(op) :
            /\ api_descrub(op, identifiers, role, clearance, fail, ApiNow)
            /\ Vault(role \in AllowedRoles)
    /\ UNCHANGED <<tampered, writerVars, receipts, vaults, nextOp, result, out>>

----------------------------------------------------------------------------
(* A crash (the process is killed, the machine loses power) inside a write. *)
(* write_receipt and put_many open the destination with mode "w" and        *)
(* json.dump into it; append opens the month's shard with mode "a" and      *)
(* writes the line: the bytes reach the file in one or more write calls.    *)

\* what a write that was interrupted leaves of its bytes: none, a proper
\* prefix, or all of them
Written == {"nothing", "torn", "complete"}

\* a file left with a proper prefix of its JSON document
TornFile == [status |-> "torn"]

\* a shard line left with a proper prefix of line
TornLine(line) == <<<<"torn", None>>>> \o line

\* the file path.open("w") + json.dump leaves when it is interrupted
Interrupted(files, op, content, written) ==
    CASE written = "nothing" -> files
      [] written = "torn" -> [files EXCEPT ![op] = TornFile]
      [] written = "complete" -> [files EXCEPT ![op] = content]

\* the write in which the process dies
CrashPoints == {"put_many", "write_receipt"}

\* scrub_text cut short inside put_many (line 129) or write_receipt (134)
CrashedOutcome(text, c_level, point, written, s, op) ==
    [nextOp |-> op,
     vaults |-> IF s.vault_items = <<>> THEN vaults
                ELSE IF point = "put_many"
                THEN Interrupted(vaults, op, VaultFile(s.vault_items), written)
                ELSE [vaults EXCEPT ![op] = VaultFile(s.vault_items)],
     receipts |-> IF point = "put_many" THEN receipts
                  ELSE Interrupted(receipts, op,
                                   Receipt(op, text, s.scrubbed, s.receipt_entities,
                                           c_level, s.placeholder_map),
                                   written),
     result |-> [status |-> "crashed", text |-> text, c_level |-> c_level,
                 operation_id |-> op]]

CrashScrub ==
    /\ nextOp < MaxOps
    /\ \E text \in ApiTexts, c_level \in Levels, point \in CrashPoints, written \in Written :
        /\ point = "put_many" => Scrubbed(text, c_level).vault_items # <<>>
        /\ Effect(CrashedOutcome(text, c_level, point, written,
                                 Scrubbed(text, c_level), nextOp + 1))
    /\ Vault(TRUE)
    /\ UNCHANGED <<auditVars, tampered, writerVars, out, resp>>

\* append cut short inside the write of the shard line (lines 79-81); the
\* INSERT of lines 85-96 has not begun
CrashedStore(e, written) ==
    /\ jsonl' = CASE written = "nothing" -> jsonl
                  [] written = "torn" ->
                        [jsonl EXCEPT ![_month_jsonl(e["ts"])] = Append(@, TornLine(_canon(e)))]
                  [] written = "complete" ->
                        [jsonl EXCEPT ![_month_jsonl(e["ts"])] = Append(@, _canon(e))]
    /\ UNCHANGED db

CrashAppend ==
    /\ Len(db) < MaxLog
    /\ \A m \in Months : Len(jsonl[m]) < MaxLog
    /\ \E kind \in EventKinds, m \in Clock, written \in Written :
        CrashedStore(Enriched(CallerEvent(kind, Absent), Ts(m), last_hash), written)
    /\ UNCHANGED <<file, tampered, writerVars, scrubVars>>

\* append whose INSERT (lines 85-96) raises, as sqlite3 does for a dict
\* without "event" (event TEXT NOT NULL): the shard line is already written,
\* finally closes the connection and the exception leaves append
FailedInsert ==
    /\ Len(db) < MaxLog
    /\ \A m \in Months : Len(jsonl[m]) < MaxLog
    /\ \E event \in CallerEvents, m \in Clock :
        CrashedStore(Enriched(event, Ts(m), last_hash), "complete")
    /\ UNCHANGED <<file, tampered, writerVars, scrubVars>>

----------------------------------------------------------------------------
(* api/main.py: GET /descrub/{operation_id} (lines 438-460) *)

\* ALLOWED_DESCRUB_ROLES (lines 353-357), with SECUREPROMPT_DESCRUB_ROLES set
\* to "admin,reviewer", the value api_descrub falls back to
ALLOWED_DESCRUB_ROLES == AllowedRoles

\* _extract_original_payload: of the keys it tries, a receipt has "original"
\* only, and only after _maybe_store_original
_extract_original_payload(rec) == IF rec.original = Absent THEN None ELSE rec.original

\* descrub(operation_id, role, just): no call of _emit_audit_event or
\* AUDIT.append on any path
get_descrub(op, role) ==
    resp' =
        IF role \notin ALLOWED_DESCRUB_ROLES
        THEN [status |-> "403", endpoint |-> "GET /descrub", operation_id |-> op,
              audit |-> "none"]
        ELSE IF receipts[op].status # "stored"
                \/ _extract_original_payload(receipts[op]) = None
        THEN [status |-> "404", endpoint |-> "GET /descrub", operation_id |-> op,
              audit |-> "none"]
        ELSE [status |-> "200", endpoint |-> "GET /descrub", operation_id |-> op,
              audit |-> "none", original |-> _extract_original_payload(receipts[op])]

GetDescrub ==
    /\ \E op \in Requested, role \in Roles : get_descrub(op, role)
    /\ UNCHANGED <<auditVars, tampered, writerVars, receipts, vaults, nextOp, result, out,
                   keyVars>>

----------------------------------------------------------------------------

InitAudit ==
    /\ db = <<>>
    /\ jsonl = [m \in Months |-> <<>>]
    /\ file = <<>>
    /\ tampered = Absent
    /\ wpc = [w \in Writers |-> "idle"]
    /\ wev = [w \in Writers |-> Absent]
    /\ started = 0

InitScrub ==
    /\ receipts = [op \in Ops |-> NoFile]
    /\ vaults = [op \in Ops |-> NoFile]
    /\ nextOp = 0
    /\ result = [status |-> "none"]
    /\ out = [status |-> "none"]
    /\ resp = [status |-> "none", audit |-> "none"]
    /\ keysMade = 0

\* the deployment configures a vault key
InitConfigured == vaultEnv = ConfiguredKey

\* the deployment configures none
InitNoKey == vaultEnv = Absent

Init == InitAudit /\ InitScrub /\ InitConfigured

\* the audit logs, written by one caller at a time
Next == AuditAppend \/ StoreAppend

Spec == Init /\ [][Next]_vars

\* audit_log.append called by concurrent writers
NextConc == \E w \in Writers : WBegin(w) \/ WJsonl(w) \/ WInsert(w)

SpecConc == Init /\ [][NextConc]_vars

\* threads appending through AuditStore objects on the same path
NextStores == \E w \in Writers : SBegin(w) \/ SWrite(w)

SpecStores == Init /\ [][NextStores]_vars

\* scrub_text and the receipt-based descrub_text
NextScrub == ScrubText \/ DescrubText

SpecScrub == Init /\ [][NextScrub]_vars

\* scrub_text, several operations
NextRepeat == ScrubAgain

SpecRepeat == Init /\ [][NextRepeat]_vars

\* the vault-based descrub over vault files with damaged records
NextVault == ScrubText \/ CorruptVault \/ VaultDescrub

SpecVault == Init /\ [][NextVault]_vars

\* the receipt-based descrub over receipts with damaged tokens
NextDamage == ScrubText \/ CorruptReceipt \/ DescrubText

SpecDamage == Init /\ [][NextDamage]_vars

\* the HTTP handlers
NextApi == ApiScrub \/ ApiDescrub \/ GetDescrub

SpecApi == Init /\ [][NextApi]_vars

\* scrub and both descrubs across restarts, with no vault key configured
NextKeys == ScrubText \/ DescrubText \/ VaultDescrub \/ Restart

InitKeys == InitAudit /\ InitScrub /\ InitNoKey

SpecKeys == InitKeys /\ [][NextKeys]_vars

\* the detectors on one text
NextDetect == Detect

SpecDetect == Init /\ [][NextDetect]_vars

\* scrubs and appends that a crash cuts short
NextCrash == CrashScrub \/ CrashAppend

SpecCrash == Init /\ [][NextCrash]_vars

\* appends that return, appends that fail and appends that are cut short
NextMirror == AuditAppend \/ FailedInsert \/ CrashAppend

SpecMirror == Init /\ [][NextMirror]_vars

\* the audit logs, and one stored record altered from outside
NextTamper == AuditAppend \/ StoreAppend \/ TamperDb \/ TamperFile

SpecTamper == Init /\ [][NextTamper]_vars

----------------------------------------------------------------------------
(* Claims on the audit chain *)

\* C1: after appends made one at a time, every stored record but the first
\* has prev_hash equal to the hash of the record appended just before it,
\* and the first has the genesis value, whatever the caller's event carried.
C1_PrevHashIsLastHash ==
    \A i \in 1..Len(db) :
        db[i].prev_hash = (IF i = 1 THEN None ELSE db[i - 1].hash)

\* C2: under concurrent writers no two stored records have the same
\* prev_hash (the chain never forks).
C2_NoFork ==
    \A i \in 1..Len(db) : \A j \in 1..Len(db) :
        i # j => db[i].prev_hash # db[j].prev_hash

\* C3: for every record stored by append, in the SQLite mirror and in the
\* JSONL shards, the stored hash is the hash of the stored prev_hash joined
\* with the canonical form of the record without its hash field.
C3_StoredHashRecomputes ==
    /\ \A i \in 1..Len(db) : Recompute(db[i].json) = db[i].hash
    /\ \A m \in Months : \A i \in 1..Len(jsonl[m]) :
        Recompute(Loads(jsonl[m][i])) = Loads(jsonl[m][i])["hash"]

----------------------------------------------------------------------------
(* Claims on scrub and descrub *)

\* how often the words of value stand in s as a contiguous run
Occ(value, s) ==
    Cardinality({i \in 1..Len(s) :
        i + Len(value) - 1 <= Len(s) /\ SubSeq(s, i, i + Len(value) - 1) = value})

\* how often the token stands in s
Count(token, s) == Cardinality({i \in 1..Len(s) : s[i] = token})

\* the text whose digest the receipt stores as hashes.original
OriginalOf(receipt) == receipt.hashes.original[2]

\* the raw value a receipt entity encrypts
RawOf(entity) == FernetDecrypt(ReceiptKey, entity.original_enc)

\* C5: receipt-based descrub_text at clearance X never substitutes the
\* original value of an entity whose c_level ranks above X: each such
\* entity's placeholder stays, and its raw value appears no more often than
\* in the scrubbed text; for an EMAIL (C3) next to a phone number (C4),
\* descrub at C3 restores only the email and descrub at C4 restores both.
C5_ClearanceGate ==
    out.status = "ok" =>
        LET r == receipts[out.operation_id]
        IN  /\ \A i \in 1..Len(r.entities) :
                _rank(r.entities[i].c_level) > _rank(out.clearance) =>
                    /\ Count(r.entities[i].identifier, out.text)
                        = Count(r.entities[i].identifier, r.scrubbed.text)
                    /\ Occ(RawOf(r.entities[i]), out.text)
                        = Occ(RawOf(r.entities[i]), r.scrubbed.text)
            /\ (OriginalOf(r) = <<W(EM), W(PH)>> /\ out.ids = {}) =>
                /\ out.clearance = "C4" => out.text = <<W(EM), W(PH)>>
                /\ out.clearance = "C3" =>
                    out.text = <<W(EM), _identifier("PHONE", <<W(PH)>>, "C4")>>

\* a descrub at C3 that restored one entity and left a C4 entity in place
C5_Witness ==
    /\ out.status = "ok"
    /\ out.clearance = "C3"
    /\ out.text # receipts[out.operation_id].scrubbed.text
    /\ \E i \in 1..Len(receipts[out.operation_id].entities) :
        /\ receipts[out.operation_id].entities[i].c_level = "C4"
        /\ Count(receipts[out.operation_id].entities[i].identifier, out.text) > 0

\* C7: descrub_text of the scrubbed text with the operation's receipt,
\* clearance C4 and all identifiers returns exactly the text that was
\* scrubbed.
C7_RoundTrip ==
    (out.status = "ok" /\ out.clearance = "C4" /\ out.ids = {}) =>
        out.text = OriginalOf(receipts[out.operation_id])

PublicFields ==
    {"label", "span", "detector", "confidence", "confidence_sources", "c_level",
     "identifier", "action", "explanation", "mask_preview"}

\* C8: the result of scrub_text holds no detected raw value: the scrubbed
\* text has no run of words equal to a detected value, and a public entity
\* has only its identifier, an asterisk preview, labels and metadata.
C8_NoRawValueInResult ==
    result.status = "ok" =>
        /\ \A i \in 1..Len(detect(result.text)) :
            Occ(detect(result.text)[i].value, result.scrubbed) = 0
        /\ \A i \in 1..Len(result.entities) :
            /\ DOMAIN result.entities[i] \subseteq PublicFields
            /\ result.entities[i].identifier[1] = "id"
            /\ result.entities[i].mask_preview # Absent =>
                result.entities[i].mask_preview[1] = "stars"

\* every entity of the operation's receipt has a record in its vault file
VaultBacks(op) ==
    /\ receipts[op].status = "stored"
    /\ \A i \in 1..Len(receipts[op].entities) :
        /\ vaults[op].status = "stored"
        /\ \E k \in 1..Len(vaults[op].records) :
            vaults[op].records[k].identifier = receipts[op].entities[i].identifier

\* C9: scrub_text returns a result only if the vault records and the receipt
\* of its operation were written, and it leaves neither a receipt whose
\* entities the vault lacks nor a vault without a receipt.
C9_FailClosed ==
    /\ result.status = "ok" => VaultBacks(result.operation_id)
    /\ \A op \in Ops :
        /\ receipts[op].status = "stored" => VaultBacks(op)
        /\ vaults[op].status = "stored" => receipts[op].status = "stored"

\* C6: the vault-based descrub behind POST /descrub never restores an
\* identifier whose tier exceeds the requester's clearance, whatever
\* identifiers are requested.
C6_VaultDescrubGated ==
    (resp.status = "200" /\ resp.endpoint = "/descrub") =>
        \A ident \in resp.restored : _rank(ident[2]) <= _rank(resp.clearance)

\* C10: a request whose audit event could not be appended is not answered
\* as a success.
C10_AuditFailureIsFatal == resp.audit = "failed" => resp.status # "200"

\* the outcomes that are to be audited: a completed scrub or descrub (200),
\* a descrub refused for the role (422 from POST /descrub, 403 from GET)
Audited == {"200", "422", "403"}

\* C11: a request that ends as a completed scrub, a completed descrub or a
\* descrub refused for the role appends exactly one event to the hash-chained
\* log (when the append itself does not fail), and the event of a refused
\* request has status "denied".
C11_OneEventPerOutcome ==
    [][(resp'.status \in Audited /\ resp'.audit # "failed") =>
            /\ Len(db') = Len(db) + 1
            /\ resp'.status # "200" => db'[Len(db')].json["status"] = Str("denied")]_vars

\* C12: a value that put_many stored is returned by get_map whenever it is
\* asked for, also after the process restarted with no key in its
\* environment: a vault-based descrub restores every requested identifier
\* that the operation's vault file holds.
C12_VaultKeySurvivesRestart ==
    (out.status = "restored" /\ vaults[out.operation_id].status = "stored") =>
        LET rec == receipts[out.operation_id]
            wanted == IF out.ids = {} THEN ReceiptIds(rec) ELSE out.ids
            rows == vaults[out.operation_id].records
        IN  \A k \in 1..Len(rows) :
                rows[k].identifier \in wanted => rows[k].identifier \in out.restored

IsTorn(line) == line # <<>> /\ line[1][1] = "torn"

\* C13: whatever crashes happened during write_receipt, put_many or append,
\* no receipt, vault file or audit shard holds a half-written record.
C13_NoTornRecord ==
    /\ \A op \in Ops : receipts[op].status # "torn" /\ vaults[op].status # "torn"
    /\ \A m \in Months : \A i \in 1..Len(jsonl[m]) : ~IsTorn(jsonl[m][i])

\* the document write_receipt stored for the scrub that result is of
AsWritten ==
    Receipt(result.operation_id, result.text, result.scrubbed,
            Scrubbed(result.text, result.c_level).receipt_entities,
            result.c_level, Scrubbed(result.text, result.c_level).placeholder_map)

\* C14: the receipt of an operation keeps the content write_receipt gave it:
\* no later step of the scrub request and no other request changes it.
C14_ReceiptImmutable ==
    (result.status = "ok" /\ receipts[result.operation_id].status = "stored") =>
        receipts[result.operation_id] = AsWritten

\* the descrub that out' is of repeats the one that out is of
SameDescrub ==
    /\ out.status \in {"ok", "restored"}
    /\ out'.status = out.status
    /\ out'.operation_id = out.operation_id
    /\ out'.ids = out.ids
    /\ out.status = "ok" => out'.clearance = out.clearance

\* C15: no step changes a stored receipt or a stored vault file (descrubs only
\* read them), and a descrub that repeats the one before it, with the same
\* identifiers and clearance, returns the same text.
C15_DescrubRepeatable ==
    [][/\ \A op \in Ops :
            /\ receipts[op].status = "stored" => receipts'[op] = receipts[op]
            /\ vaults[op].status = "stored" => vaults'[op] = vaults[op]
       /\ SameDescrub => out'.text = out.text]_vars

\* C16: the spans detect returns are pairwise non-overlapping, each lies in
\* the text with 0 <= start < end <= len(text), and the list is sorted by
\* (start, end, label).
C16_SpansDisjointSorted ==
    result.status = "detected" =>
        LET hits == result.hits
        IN  /\ \A i \in 1..Len(hits) :
                0 <= hits[i].start /\ hits[i].start < hits[i].end
                    /\ hits[i].end <= Len(result.text)
            /\ \A i, j \in 1..Len(hits) :
                i # j => ~_overlaps(<<hits[i].start, hits[i].end>>, <<hits[j].start, hits[j].end>>)
            /\ \A i \in 1..(Len(hits) - 1) : SpanLess(hits[i], hits[i + 1])

\* a text in which two detectors matched the same word, with a further hit
C16_Witness ==
    /\ result.status = "detected"
    /\ \E i \in 1..Len(result.text) : result.text[i] = W(DT)
    /\ Len(result.hits) >= 2

HasLabel(hits, label) == \E i \in 1..Len(hits) : hits[i].label = label

\* C17: for a string of 13 to 19 digits standing alone in the text, detect
\* returns a PAN entity if and only if the Luhn checksum of the digits is
\* zero.
C17_PanIffLuhn ==
    (/\ result.status = "detected"
     /\ Len(result.text) = 1
     /\ IsDigitWord(result.text[1])
     /\ Len(result.text[1][2]) \in 13..19) =>
        (HasLabel(result.hits, "PAN") <=> _luhn_ok(result.text[1][2]))

\* the characters of an IBAN of the vocabulary, a letter as its number 10..35
Body == [i \in 1..28 |-> <<0, 9, 6, 1>>[((i - 1) % 4) + 1]]
IbanChars(x) ==
    CASE x = IB -> <<11, 14, 7, 1>> \o Body
      [] x = IBV -> <<11, 14, 8, 4>> \o Body

\* ISO 7064 mod 97-10: the first four characters moved to the end, the
\* letters written as two digits, the number taken modulo 97
RECURSIVE Mod97From(_, _)
Mod97From(chars, acc) ==
    IF chars = <<>> THEN acc
    ELSE Mod97From(Tail(chars),
                   IF chars[1] >= 10 THEN (acc * 100 + chars[1]) % 97
                   ELSE (acc * 10 + chars[1]) % 97)

Mod97(chars) == Mod97From(SubSeq(chars, 5, Len(chars)) \o SubSeq(chars, 1, 4), 0)

\* C18: for an IBAN-shaped string standing alone in the text, detect returns
\* an IBAN entity if and only if the ISO 7064 mod-97 checksum of the string
\* is 1.
C18_IbanIffMod97 ==
    (/\ result.status = "detected"
     /\ Len(result.text) = 1
     /\ result.text[1] \in {W(IB), W(IBV)}) =>
        (HasLabel(result.hits, "IBAN") <=> Mod97(IbanChars(result.text[1][2])) = 1)

\* what a scrub said of a value: <<tier, label, value, identifier, operation, start>>
IssuedIn(op) ==
    IF receipts[op].status # "stored" THEN {}
    ELSE {<<e.c_level, e.label, RawOf(e), e.identifier, op, e.span[1]>> :
            e \in {receipts[op].entities[i] : i \in 1..Len(receipts[op].entities)}}

IssuedNow ==
    IF result.status # "ok" THEN {}
    ELSE {<<e.c_level, e.label, SubSeq(result.text, e.span[1] + 1, e.span[2]), e.identifier,
            result.operation_id, e.span[1]>> :
            e \in {result.entities[i] : i \in 1..Len(result.entities)}}

Issued == IssuedNow \cup UNION {IssuedIn(op) : op \in Ops}

\* C19: the identifier is a function of (tier, label, value) under one
\* salt: two entities with the same tier, label and value have the same
\* identifier, whatever their place in the text and their operation.
C19_IdentifierDeterministic ==
    \A x, y \in Issued :
        (x[1] = y[1] /\ x[2] = y[2] /\ x[3] = y[3]) => x[4] = y[4]

\* the same value under the same tier and label in two operations, at two
\* places
C19_Witness ==
    \E x, y \in Issued :
        /\ x[1] = y[1] /\ x[2] = y[2] /\ x[3] = y[3]
        /\ x[5] # y[5]
        /\ x[6] # y[6]

\* the identifiers standing in a text
IdTokens(text) == {text[i] : i \in {j \in 1..Len(text) : text[j][1] = "id"}}

Range(s) == {s[i] : i \in 1..Len(s)}

\* TIER::LABEL::hash for an entity: the tier one of C1..C4 and the
\* entity's, the label the entity's, the hash taken of salt + value
FormedFor(id, e) ==
    /\ id[1] = "id"
    /\ Len(id) > 4
    /\ id[2] \in Levels /\ id[2] = e.c_level
    /\ id[3] = e.label
    /\ id[4] = Salt

C21_TierByLabel ==
    \A x, y \in Issued : x[2] = y[2] => x[1] = y[1]

\* the identifiers a vault-based descrub asked get_map for
AskedOf(o) == IF o.ids = {} THEN ReceiptIds(receipts[o.operation_id]) ELSE o.ids

\* the records of an operation's vault file
RowsOf(op) == IF vaults[op].status = "stored" THEN Range(vaults[op].records) ELSE {}

\* C22: get_map returns exactly the identifiers that are requested, stored
\* for the operation and whose token decrypts; a record whose token fails
\* is left out, the other requested records are returned, and the call
\* returns.
C22_GetMapSkipsBadTokens ==
    [][(out' # out /\ out'.status = "restored") =>
            out'.restored =
                {r.identifier : r \in {x \in RowsOf(out'.operation_id) :
                    /\ x.identifier \in AskedOf(out')
                    /\ FernetDecrypts(VaultKey, x.ciphertext)}}]_vars

\* a descrub that asked for two stored records, one damaged: the other is
\* restored
C22_Witness ==
    /\ out.status = "restored"
    /\ out.restored # {}
    /\ \E r \in RowsOf(out.operation_id) :
        /\ r.identifier \in AskedOf(out)
        /\ ~FernetDecrypts(VaultKey, r.ciphertext)
        /\ r.identifier \notin out.restored

\* C23: a lookup of the vault records of an operation that has none fails:
\* a vault-based descrub of an operation with entities that returns has
\* found the operation's vault file.
C23_MissingVaultIsAnError ==
    (out.status = "restored" /\ ReceiptIds(receipts[out.operation_id]) # {}) =>
        vaults[out.operation_id].status = "stored"

\* the receipt entities a descrub_text call is to restore
Included(o) ==
    LET ents == receipts[o.operation_id].entities
    IN  {i \in 1..Len(ents) :
            /\ o.ids = {} \/ ents[i].identifier \in o.ids
            /\ CLEARANCE_ORDER(ents[i].c_level) <= CLEARANCE_ORDER(o.clearance)}

\* C24: descrub_text restores the entities of the allow-list, or all of
\* them when the list is empty, within the clearance, and each restored
\* entity takes exactly one occurrence of its identifier out of the
\* scrubbed text and puts its value in; the other tokens stay.
C24_AllowListAndOnce ==
    out.status = "ok" =>
        LET rec == receipts[out.operation_id]
            ents == rec.entities
        IN  /\ \A id \in ReceiptIds(rec) :
                    Count(id, out.text) =
                        Count(id, rec.scrubbed.text)
                            - Cardinality({i \in Included(out) : ents[i].identifier = id})
            /\ \A i \in Included(out) : Occ(RawOf(ents[i]), out.text) >= 1
            /\ Len(out.text) >= Len(rec.scrubbed.text)

\* an allow-list that names one of two entities within the clearance, the
\* listed one restored and the other left
C24_Witness ==
    /\ out.status = "ok"
    /\ out.ids # {}
    /\ Included(out) # {}
    /\ \E i \in 1..Len(receipts[out.operation_id].entities) :
        LET e == receipts[out.operation_id].entities[i]
        IN  /\ i \notin Included(out)
            /\ CLEARANCE_ORDER(e.c_level) <= CLEARANCE_ORDER(out.clearance)
            /\ Count(e.identifier, out.text) = 1

\* what a descrub tells its caller of the identifiers it restored:
\* descrub.service.descrub returns {"restored": [...]} next to the text,
\* descrub_text returns the text and nothing else
ReportedBy(o) == IF o.status = "restored" THEN o.restored ELSE {}

\* a token the descrub was to decrypt did not decrypt
DecryptFailed(o) ==
    \/ /\ o.status = "ok"
       /\ \E i \in Included(o) :
            ~FernetDecrypts(ReceiptKey, receipts[o.operation_id].entities[i].original_enc)
    \/ /\ o.status = "restored"
       /\ \E r \in RowsOf(o.operation_id) :
            r.identifier \in AskedOf(o) /\ ~FernetDecrypts(VaultKey, r.ciphertext)

\* C25: when a token fails to decrypt during a descrub, the entities that
\* do decrypt are still restored, and the identifiers reported to the caller
\* are exactly those whose value was put into the returned text.
C25_ReportsWhatWasRestored ==
    [][(out' # out /\ out'.status \in {"ok", "restored"} /\ DecryptFailed(out')) =>
            LET rec == receipts[out'.operation_id]
            IN  \A id \in ReceiptIds(rec) :
                    id \in ReportedBy(out')
                        <=> Count(id, out'.text) < Count(id, rec.scrubbed.text)]_vars

\* the candidates of the twelve passes, in the order detect runs them
Candidates(text) ==
    _pass_iban(text) \o _pass_bic(text) \o _pass_email(text) \o _pass_dob(text)
        \o _pass_date(text) \o _pass_year(text) \o _pass_amount_currency(text, <<>>)
        \o _pass_pan(text, <<>>) \o _pass_status(text) \o _pass_transfer_id(text)
        \o _pass_phone(text) \o _pass_name(text)

Overlap(a, b) == _overlaps(<<a.start, a.end>>, <<b.start, b.end>>)

\* C26: detect accepts a candidate if and only if its span intersects the
\* span of no candidate accepted before it, in the order of the detectors;
\* no candidate is dropped for a candidate of a later detector.
C26_GreedyInDetectorOrder ==
    result.status = "detected" =>
        LET cands == Candidates(result.text)
            accepted == Range(result.hits)
        IN  /\ accepted \subseteq Range(cands)
            /\ \A k \in 1..Len(cands) :
                    cands[k] \in accepted
                        <=> \A j \in 1..(k - 1) :
                                cands[j] \in accepted => ~Overlap(cands[j], cands[k])

\* a candidate of a later detector was dropped for an accepted one of an
\* earlier detector
C26_Witness ==
    /\ result.status = "detected"
    /\ \E k \in 1..Len(Candidates(result.text)) :
        \E j \in 1..(k - 1) :
            LET cands == Candidates(result.text)
            IN  /\ cands[j].label # cands[k].label
                /\ Overlap(cands[j], cands[k])
                /\ cands[j] \in Range(result.hits)
                /\ cands[k] \notin Range(result.hits)

\* the hit of detect that a public entity of the result was made from
HitOf(e) ==
    LET hits == detect(result.text)
    IN  hits[CHOOSE i \in 1..Len(hits) : <<hits[i].start, hits[i].end>> = e.span]

IdentifierAt(span) ==
    LET e == CHOOSE e \in Range(result.entities) : e.span = span
    IN  e.identifier

\* the text from position pos on, with each hit's span replaced by its
\* identifier, read from left to right
RECURSIVE Replaced(_, _, _)
Replaced(text, hits, pos) ==
    IF hits = <<>> THEN SubSeq(text, pos + 1, Len(text))
    ELSE SubSeq(text, pos + 1, hits[1].start)
            \o <<IdentifierAt(<<hits[1].start, hits[1].end>>)>>
            \o Replaced(text, Tail(hits), hits[1].end)

\* C28: the scrubbed text is the original text with each detected span
\* replaced by that hit's identifier: everything outside the spans is kept
\* in order, and the identifiers stand in the order of their spans.
C28_SpliceKeepsTheRest ==
    result.status = "ok" =>
        result.scrubbed = Replaced(result.text, detect(result.text), 0)

\* a span of two words before another hit: the scrubbed text is shorter,
\* and the later hit's offsets are those of the original text
C28_Witness ==
    /\ result.status = "ok"
    /\ Len(result.entities) = 2
    /\ \E e \in Range(result.entities) : e.span = <<0, 2>>
    /\ Len(result.scrubbed) = Len(result.text) - 1

----------------------------------------------------------------------------
(* Claims on concurrent AuditStore appends *)

\* the lines an append has written so far link up and recompute
StoreChained ==
    \A i \in 1..Len(file) :
        /\ file[i]["prev_hash"] =
               (IF i = 1 THEN Zeros64 ELSE file[i - 1]["curr_hash"])
        /\ file[i]["curr_hash"] =
               CurrHash(file[i]["prev_hash"],
                        [file[i] EXCEPT !["prev_hash"] = Absent,
                                        !["curr_hash"] = Absent])

\* C29: after any interleaving of append calls from several threads on the
\* same log file, also through different AuditStore objects opened on the
\* same path, each line's prev_hash is the curr_hash of the line written
\* just before it (64 zeros for the first line) and its curr_hash is the
\* hash of prev_hash and the record without its hash fields.
C29_StoreChainUnderThreads == StoreChained

\* two lines written through two AuditStore objects both carry the genesis
\* prev_hash
C29_ForkAcrossStores ==
    /\ Len(file) >= 2
    /\ file[1]["prev_hash"] = Zeros64
    /\ file[2]["prev_hash"] = Zeros64

----------------------------------------------------------------------------
(* Claims on the two copies of the audit trail *)

\* the lines of all month shards, and the json column of all rows
ShardLines == UNION {{jsonl[m][i] : i \in 1..Len(jsonl[m])} : m \in Months}
MirrorLines == {_canon(db[i].json) : i \in 1..Len(db)}

\* what tail and find_by_operation can return is in the shards
MirrorWithinShards == MirrorLines \subseteq ShardLines

\* C30: after every append that returns, and after a failure or a crash at
\* any point inside append, the month shards and the SQLite table hold the
\* same set of records, and tail / find_by_operation return no record that
\* the shards lack.
C30_ShardsAndMirrorAgree == ShardLines = MirrorLines

\* an append has returned and a later one has left a whole line in a shard
\* that no row of the table matches
C30_ShardOnlyRecord ==
    /\ db # <<>>
    /\ \E line \in ShardLines \ MirrorLines : line[1][1] # "torn"

====
